---- MODULE Spec2Model ----
(***************************************************************************)
(* Fixed-window rate limiter over a shared counter store                   *)
(* (app/rate_limiter.py, app/redis_client.py, app/config.py).              *)
(*                                                                         *)
(* Several service instances run RateLimiter calls against one Redis.      *)
(* Every call is a sequence of store round trips; a call of one task can   *)
(* be interleaved with the round trips of any other task, with the wall    *)
(* clock advancing, and with Redis expiring keys.  One action of the model *)
(* is one round trip together with the local code around it.               *)
(***************************************************************************)
EXTENDS Integers, Sequences, FiniteSets, TLC

VARIABLES
  now,        \* wall clock, whole seconds since the epoch (datetime.now)
  store,      \* the Redis keyspace: key -> [val, num, ttl, exp, sets]
  storeUp,    \* FALSE while commands to Redis fail with RedisError
  tier,       \* the tier of RATE_LIMITS each entry of RATE_LIMIT_STRATEGIES uses
  pc,         \* per task: position inside the call it is running
  frame,      \* per task: local variables of the running call
  ret,        \* the value most recently returned by a call, with the call it ended
  calls,      \* number of calls begun so far (bounded)
  incrs,      \* per key: INCR commands applied since the key was last absent
  issued,     \* per key: Decisions check returned since the key was last deleted
              \* or expired
  admitted,   \* per key: of those, the ones with allowed = TRUE
  denied,     \* per key: a check read a count at the limit and turned to the
              \* denial since the key was last deleted or expired
  _redis_client  \* the global of redis_client.py: the RedisClient of the process

vars == <<now, store, storeUp, tier, pc, frame, ret, calls, incrs, issued, admitted,
          denied, _redis_client>>

-----------------------------------------------------------------------------
(* Bounds of the model *)

\* calls begun in one behaviour, beyond what is needed to fill a window
MaxCalls == 3
\* a pre-existing counter holds a count within SeedBack of its limit
SeedBack == 1

\* the longest X-Forwarded-For header value, in characters
MaxHeaderLen == 3

\* the calls in flight at the same time: two slots, one in the sequential runs
Tasks == {1, 2}
SeqTasks == {1}

\* the windows the clock runs over
Windows == {0, 1}

\* the callers: (identifier, identifier_type)
Callers == {<<"u1", "user">>, <<"10.0.0.1", "ip">>}

-----------------------------------------------------------------------------
(* app/config.py *)

RATE_LIMITS ==
  [free    |-> [requests_per_minute |-> 20,  requests_per_hour |-> 1000],
   premium |-> [requests_per_minute |-> 100, requests_per_hour |-> 10000],
   admin   |-> [requests_per_minute |-> -1,  requests_per_hour |-> -1]]

StrategyKinds == {"user", "ip"}

\* the tiers the shipped table wires in: both strategies use "free"
ActiveTier == [k \in StrategyKinds |-> "free"]

RATE_LIMIT_STRATEGIES ==
  [k \in StrategyKinds |->
     [limit |-> RATE_LIMITS[tier[k]].requests_per_minute, window |-> 60]]

\* a faulty variant of Strategy: the default is the strategy of users
StrategyUserDefault(identifier_type) ==
  IF identifier_type \in DOMAIN RATE_LIMIT_STRATEGIES
  THEN RATE_LIMIT_STRATEGIES[identifier_type]
  ELSE RATE_LIMIT_STRATEGIES["user"]

\* RATE_LIMIT_STRATEGIES.get(identifier_type, RATE_LIMIT_STRATEGIES["ip"])
Strategy(identifier_type) ==
  IF identifier_type \in DOMAIN RATE_LIMIT_STRATEGIES
  THEN RATE_LIMIT_STRATEGIES[identifier_type]
  ELSE RATE_LIMIT_STRATEGIES["ip"]

-----------------------------------------------------------------------------
(* The clock and the window (RateLimiter._get_current_window,              *)
(* RateLimiter._calculate_reset_time).  A calendar label                   *)
(* strftime("%Y-%m-%d-%H:%M") of a UTC instant is the tuple of its format  *)
(* and the fields the format prints: the date %Y-%m-%d (the number of the  *)
(* day since the epoch names it), the hour of the day, the minute of the   *)
(* hour.  The generic label is the decimal string of the bucket start.     *)

\* a faulty variant of _get_current_window: the minute label has no hour field
_get_current_window_no_hour(window_seconds) ==
  IF window_seconds = 60
  THEN <<"%Y-%m-%d-%M", now \div 86400, (now % 3600) \div 60>>
  ELSE IF window_seconds = 3600
  THEN <<"%Y-%m-%d-%H", now \div 86400, (now % 86400) \div 3600>>
  ELSE <<"%d", (now \div window_seconds) * window_seconds>>

_get_current_window(window_seconds) ==
  IF window_seconds = 60
  THEN <<"%Y-%m-%d-%H:%M", now \div 86400, (now % 86400) \div 3600, (now % 3600) \div 60>>
  ELSE IF window_seconds = 3600
  THEN <<"%Y-%m-%d-%H", now \div 86400, (now % 86400) \div 3600>>
  ELSE <<"%d", (now \div window_seconds) * window_seconds>>

\* reads the clock again; the window argument is not used
_calculate_reset_time(window, window_seconds) ==
  IF window_seconds = 60 THEN (now \div 60) * 60 + 60
  ELSE IF window_seconds = 3600 THEN (now \div 3600) * 3600 + 3600
  ELSE (now \div window_seconds) * window_seconds + window_seconds

\* a faulty variant of _build_redis_key: one key for all the windows of a caller
_build_redis_key_no_window(identifier_type, identifier, window) ==
  <<"rate", identifier_type, identifier,
    <<"%Y-%m-%d-%H:%M", 0, 0, 0>>>>

\* f"rate:{identifier_type}:{identifier}:{window}"
_build_redis_key(identifier_type, identifier, window) ==
  <<"rate", identifier_type, identifier, window>>

\* the instants at which the clock is read: the first and the last second of a window
Instants == {w * 60 + o : w \in Windows, o \in {0, 59}}

\* the label of minute m since the epoch, as "%Y-%m-%d-%H:%M" prints it
MinuteLabel(m) == <<"%Y-%m-%d-%H:%M", m \div 1440, (m % 1440) \div 60, m % 60>>

\* a caller whose identifier kind has no entry in RATE_LIMIT_STRATEGIES
Strangers == {<<"k1", "api_key">>}

KeySpace ==
  {<<"rate", c[2], c[1], MinuteLabel(w)>> : c \in Callers \cup Strangers, w \in Windows}

-----------------------------------------------------------------------------
(* app/redis_client.py: RedisClient, one command of Redis per method.  A   *)
(* command that fails with RedisError is caught in the method, which then  *)
(* returns None, False or -1.  A record is [val, num, ttl, exp, sets]: the *)
(* stored string is the decimal of val when num, and is not a number when  *)
(* ~num; ttl says whether the key has an expiry, exp is that instant;      *)
(* sets counts the EXPIRE commands that took effect on the record.         *)

None == [none |-> TRUE, num |-> FALSE, val |-> 0]

Present(key) == key \in DOMAIN store

Without(key) == [k \in DOMAIN store \ {key} |-> store[k]]

With(key, rec) == [k \in DOMAIN store \cup {key} |-> IF k = key THEN rec ELSE store[k]]

\* GET: the stored string, None when the key is absent or the command failed
get(key) ==
  IF ~storeUp THEN None
  ELSE IF ~Present(key) THEN None
  ELSE [none |-> FALSE, num |-> store[key].num, val |-> store[key].val]

\* INCR: atomic in Redis; creates the key at 1 without expiry; an error on a
\* value that is not an integer; None when the command failed
incr(key) ==
  IF ~storeUp THEN [reply |-> None, store |-> store]
  ELSE IF ~Present(key)
    THEN [reply |-> [none |-> FALSE, num |-> TRUE, val |-> 1],
          store |-> With(key, [val |-> 1, num |-> TRUE, ttl |-> FALSE, exp |-> 0, sets |-> 0])]
  ELSE IF ~store[key].num THEN [reply |-> None, store |-> store]
  ELSE [reply |-> [none |-> FALSE, num |-> TRUE, val |-> store[key].val + 1],
        store |-> With(key, [store[key] EXCEPT !.val = @ + 1])]

\* a faulty variant of expire: the expiry falls one second short
expire_short(key, seconds) ==
  IF ~storeUp \/ ~Present(key) THEN [reply |-> FALSE, store |-> store]
  ELSE [reply |-> TRUE,
        store |-> With(key, [store[key] EXCEPT !.ttl = TRUE, !.exp = now + seconds - 1,
                                                !.sets = @ + 1])]

\* EXPIRE: sets or refreshes the expiry; False on an absent key or a failure
expire(key, seconds) ==
  IF ~storeUp \/ ~Present(key) THEN [reply |-> FALSE, store |-> store]
  ELSE [reply |-> TRUE,
        store |-> With(key, [store[key] EXCEPT !.ttl = TRUE, !.exp = now + seconds,
                                                !.sets = @ + 1])]

\* a faulty variant of ttl: the reply of the store is dropped
ttl_unknown(key) == -1

\* a faulty variant of ttl: the last second of the key is not counted
ttl_short(key) ==
  IF ~storeUp THEN -1
  ELSE IF ~Present(key) THEN -2
  ELSE IF ~store[key].ttl THEN -1
  ELSE store[key].exp - now - 1

\* TTL: seconds left; -2 for an absent key, -1 for a key without expiry or a failure
ttl(key) ==
  IF ~storeUp THEN -1
  ELSE IF ~Present(key) THEN -2
  ELSE IF ~store[key].ttl THEN -1
  ELSE store[key].exp - now

\* a faulty variant of delete: every key of the store goes with the deleted one
delete_flush(key) ==
  IF ~storeUp \/ ~Present(key) THEN [reply |-> FALSE, store |-> store]
  ELSE [reply |-> TRUE, store |-> [k \in {} |-> store[k]]]

\* DELETE: True when a key was removed
delete(key) ==
  IF ~storeUp \/ ~Present(key) THEN [reply |-> FALSE, store |-> store]
  ELSE [reply |-> TRUE, store |-> Without(key)]

\* a faulty variant of ping: the reply of the store is not looked at
ping_unchecked == TRUE

\* PING: True when Redis answers, False when the command failed
ping == storeUp

\* Redis removes a key once its expiry instant is reached
Expired(k, t) == store[k].ttl /\ store[k].exp <= t

-----------------------------------------------------------------------------
(* app/rate_limiter.py: RateLimiter *)

\* int(count_str): 0 for None and for a string int() rejects
_get_current_count(redis_key) ==
  LET count_str == get(redis_key)
  IN  IF count_str.none THEN 0
      ELSE IF count_str.num THEN count_str.val
      ELSE 0

\* a faulty variant of LimitReached: the comparison is strict
LimitReachedStrict(current_count, limit) == current_count > limit

\* a faulty variant of LimitReached: the last request of the quota is refused
LimitReachedEarly(current_count, limit) == current_count >= limit - 1

\* line 74: if current_count >= limit
LimitReached(current_count, limit) == current_count >= limit

IdleFrame ==
  [op |-> "none", identifier |-> "", identifier_type |-> "", limit |-> 0,
   window_seconds |-> 0, window |-> <<"", 0>>,
   redis_key |-> _build_redis_key("", "", <<"", 0>>),
   current_count |-> 0, new_count |-> 0,
   path |-> "", failed |-> FALSE, fresh |-> FALSE, later |-> FALSE, at |-> 0,
   request |-> [api_key |-> << >>, forwarded_for |-> << >>, client |-> << >>]]

\* nothing was returned yet
NoReturn ==
  [op |-> "none", outcome |-> "none", redis_key |-> IdleFrame.redis_key,
   window_seconds |-> 0, seen |-> 0,
   allowed |-> FALSE, limit |-> 0, remaining |-> 0, reset_at |-> 0, current_count |-> 0,
   window |-> <<"", 0>>, retry_after |-> 0, deleted |-> FALSE,
   path |-> "", status_code |-> 0, failed |-> FALSE,
   forwarded |-> FALSE, body |-> << >>, headers |-> << >>, health |-> "",
   client |-> [id |-> 0, connected |-> FALSE]]

Max(a, b) == IF a >= b THEN a ELSE b

\* a faulty variant of _build_rate_limit_headers: Retry-After on every response
_build_rate_limit_headers_always_retry(allowed, limit, remaining, reset_at, retry_after) ==
  [h \in {"X-RateLimit-Limit", "X-RateLimit-Remaining", "X-RateLimit-Reset", "Retry-After"} |->
     IF h = "X-RateLimit-Limit" THEN limit
     ELSE IF h = "X-RateLimit-Remaining" THEN remaining
     ELSE IF h = "X-RateLimit-Reset" THEN reset_at
     ELSE retry_after]

\* RateLimitMiddleware._build_rate_limit_headers (middleware.py lines 123-133) of
\* a result: header name -> the number whose decimal string is the value;
\* reset_at.timestamp() is the instant in epoch seconds
_build_rate_limit_headers(allowed, limit, remaining, reset_at, retry_after) ==
  [h \in {"X-RateLimit-Limit", "X-RateLimit-Remaining", "X-RateLimit-Reset"}
          \cup (IF allowed THEN {} ELSE {"Retry-After"}) |->
     IF h = "X-RateLimit-Limit" THEN limit
     ELSE IF h = "X-RateLimit-Remaining" THEN remaining
     ELSE IF h = "X-RateLimit-Reset" THEN reset_at
     ELSE retry_after]

\* a faulty variant of Response: a denied request goes to the handler all the same
ResponseForwardsDenied(path, op, allowed, limit, remaining, reset_at, window, retry_after) ==
  [status_code |-> IF path = "" THEN 0 ELSE 200,
   forwarded |-> path # "",
   body |-> << >>,
   headers |-> IF path = "" \/ op # "check" THEN << >>
               ELSE _build_rate_limit_headers(allowed, limit, remaining, reset_at,
                                              retry_after)]

\* the response to the request of the given path, built from the result the call
\* returned.  After check (middleware.py lines 52-77): on a denial JSONResponse
\* 429 with the error body and the headers, the handler is not reached; else the
\* response of the handler (200, its own body) with the headers added.  After
\* get_rate_limit_status (main.py lines 156-166): the handler's 200, and the
\* middleware adds nothing.  A direct call ("") has no response.
Response(path, op, allowed, limit, remaining, reset_at, window, retry_after) ==
  IF path = ""
  THEN [status_code |-> 0, forwarded |-> FALSE, body |-> << >>, headers |-> << >>]
  ELSE IF op # "check"
  THEN [status_code |-> 200, forwarded |-> TRUE, body |-> << >>, headers |-> << >>]
  ELSE IF ~allowed
  THEN [status_code |-> 429, forwarded |-> FALSE,
        body |-> [error |-> "Rate limit exceeded", limit |-> limit,
                  retry_after |-> retry_after, window |-> window],
        headers |-> _build_rate_limit_headers(allowed, limit, remaining, reset_at,
                                              retry_after)]
  ELSE [status_code |-> 200, forwarded |-> TRUE, body |-> << >>,
        headers |-> _build_rate_limit_headers(allowed, limit, remaining, reset_at,
                                              retry_after)]

\* the RateLimitResult a call of task t returns, with the call's op, key, window
\* size and the count its GET read; whether a command of the call failed (the one
\* of the returning step fails when the store is down); and, for a call made for an
\* HTTP request, the path and the response built from the result
RateLimitResult(t, allowed, limit, remaining, reset_at, current_count, window, retry_after) ==
  LET response == Response(frame[t].path, frame[t].op, allowed, limit, remaining,
                           reset_at, window, retry_after)
  IN  [op |-> frame[t].op, outcome |-> "returned",
       redis_key |-> frame[t].redis_key, window_seconds |-> frame[t].window_seconds,
       seen |-> frame[t].current_count,
       allowed |-> allowed, limit |-> limit, remaining |-> remaining,
       reset_at |-> reset_at,
       current_count |-> current_count, window |-> window, retry_after |-> retry_after,
       deleted |-> FALSE,
       path |-> frame[t].path,
       status_code |-> response.status_code,
       failed |-> frame[t].failed \/ ~storeUp,
       forwarded |-> response.forwarded, body |-> response.body,
       headers |-> response.headers, health |-> "", client |-> NoReturn.client]

\* the call of task t is over: its locals are gone and the task is free again
Leave(t) ==
  /\ pc' = [pc EXCEPT ![t] = "idle"]
  /\ frame' = [frame EXCEPT ![t] = IdleFrame]

\* a free task begins a call, made for the HTTP request of the given path ("" for
\* a direct call); the first lines of each method: strategy, window label, key.
\* fresh: the call is a check and the last call that returned before it is a reset
\* that removed the record of the same key.  later: a check has turned to the
\* denial on the key, before this call began and since the key was last removed.
EnterFor(t, c, o, next, path) ==
  /\ pc[t] = "idle"
  /\ LET config == Strategy(c[2])
         window == _get_current_window(config.window)
         redis_key == _build_redis_key(c[2], c[1], window)
     IN  frame' = [frame EXCEPT ![t] =
                     [op |-> o, identifier |-> c[1], identifier_type |-> c[2],
                      limit |-> config.limit, window_seconds |-> config.window,
                      window |-> window,
                      redis_key |-> redis_key,
                      current_count |-> 0, new_count |-> 0,
                      path |-> path, failed |-> FALSE,
                      fresh |-> /\ o = "check"
                                /\ ret.op = "reset" /\ ret.outcome = "returned"
                                /\ ret.deleted /\ ret.redis_key = redis_key,
                      later |-> denied[redis_key],
                      at |-> 0, request |-> IdleFrame.request]]
  /\ pc' = [pc EXCEPT ![t] = next]
  /\ calls' = calls + 1
  /\ UNCHANGED <<now, store, storeUp, tier, ret, incrs, issued, admitted, denied, _redis_client>>

\* a direct call of a method of RateLimiter
Enter(t, c, o, next) == EnterFor(t, c, o, next, "")

\* check_rate_limit, lines 65-70
CheckBegin(t, c) == Enter(t, c, "check", "get")

\* check_rate_limit, lines 71-74: read the count and branch on the limit
CheckGet(t) ==
  /\ pc[t] = "get"
  /\ LET current_count == _get_current_count(frame[t].redis_key)
     IN  /\ frame' = [frame EXCEPT ![t].current_count = current_count,
                                   ![t].failed = @ \/ ~storeUp]
         /\ pc' = [pc EXCEPT ![t] =
                     IF LimitReached(current_count, frame[t].limit) THEN "ttl" ELSE "incr"]
         /\ denied' = [denied EXCEPT ![frame[t].redis_key] =
                         @ \/ LimitReached(current_count, frame[t].limit)]
  /\ UNCHANGED <<now, store, storeUp, tier, ret, calls, incrs, issued, admitted,
                 _redis_client>>

\* lines 75-86 on the store st, which the command of the step left
Deny(t, st) ==
  /\ pc[t] = "ttl"
  /\ store' = st
  /\ LET f == frame[t]
         ttl_ == ttl(f.redis_key)
         retry_after == IF ttl_ > 0 THEN ttl_ ELSE f.window_seconds
     IN  ret' = RateLimitResult(t, FALSE, f.limit, 0,
                                _calculate_reset_time(f.window, f.window_seconds),
                                f.current_count, f.window, retry_after)
  /\ Leave(t)
  /\ issued' = [issued EXCEPT ![frame[t].redis_key] = @ + 1]
  /\ UNCHANGED <<now, storeUp, tier, calls, incrs, admitted, denied, _redis_client>>

\* a faulty variant of CheckTtl: a denied call is counted too
CheckTtlCounting(t) == Deny(t, incr(frame[t].redis_key).store)

\* check_rate_limit, lines 75-86: the denial; TTL reads, the store is as it was
CheckTtl(t) == Deny(t, store)

\* check_rate_limit, lines 96-110: the Decision of an admitted call
Allow(t, new_count) ==
  /\ LET f == frame[t]
     IN  ret' = RateLimitResult(t, TRUE, f.limit, Max(0, f.limit - new_count),
                                _calculate_reset_time(f.window, f.window_seconds),
                                new_count, f.window, 0)
  /\ Leave(t)
  /\ issued' = [issued EXCEPT ![frame[t].redis_key] = @ + 1]
  /\ admitted' = [admitted EXCEPT ![frame[t].redis_key] = @ + 1]
  /\ UNCHANGED <<denied, _redis_client>>

\* lines 88-110 given r, the reply of the INCR command and the store it left.
\* When incr returned None, limit - new_count raises TypeError.
Increment(t, r) ==
  /\ pc[t] = "incr"
  /\ store' = r.store
  /\ IF r.reply.none
     THEN /\ ret' = [NoReturn EXCEPT !.op = frame[t].op,
                                     !.outcome = "raised",
                                     !.redis_key = frame[t].redis_key,
                                     !.path = frame[t].path,
                                     !.status_code = IF frame[t].path = "" THEN 0 ELSE 500,
                                     !.failed = frame[t].failed \/ ~storeUp]
          /\ Leave(t)
          /\ UNCHANGED <<incrs, issued, admitted, denied, _redis_client>>
     ELSE /\ incrs' = [incrs EXCEPT ![frame[t].redis_key] = @ + 1]
          /\ IF r.reply.val = 1
             THEN /\ pc' = [pc EXCEPT ![t] = "expire"]
                  /\ frame' = [frame EXCEPT ![t].new_count = r.reply.val]
                  /\ UNCHANGED <<ret, issued, admitted, denied, _redis_client>>
             ELSE Allow(t, r.reply.val)
  /\ UNCHANGED <<now, storeUp, tier, calls>>

\* a faulty variant of CheckIncr: the new count is written with SET, from the
\* count the GET read
CheckIncrStale(t) ==
  LET key == frame[t].redis_key
      v == frame[t].current_count + 1
  IN  Increment(t, [reply |-> [none |-> FALSE, num |-> TRUE, val |-> v],
                    store |-> With(key, IF Present(key)
                                        THEN [store[key] EXCEPT !.val = v]
                                        ELSE [val |-> v, num |-> TRUE, ttl |-> FALSE,
                                              exp |-> 0, sets |-> 0])])

\* check_rate_limit, lines 88-93 (and 96-110 when new_count is not 1): INCR
\* a faulty variant of CheckIncr: the call is counted twice
CheckIncrTwice(t) ==
  LET key == frame[t].redis_key
      once == incr(key)
  IN  Increment(t, IF once.reply.none THEN once
                   ELSE [reply |-> [once.reply EXCEPT !.val = @ + 1],
                         store |-> [once.store EXCEPT ![key].val = @ + 1]])

CheckIncr(t) == Increment(t, incr(frame[t].redis_key))

\* a faulty variant of CheckExpire: the key is built again, from the window of
\* the clock at this line
CheckExpireRelabel(t) ==
  /\ pc[t] = "expire"
  /\ store' = expire(_build_redis_key(frame[t].identifier_type, frame[t].identifier,
                                       _get_current_window(frame[t].window_seconds)),
                      frame[t].window_seconds).store
  /\ Allow(t, frame[t].new_count)
  /\ UNCHANGED <<now, storeUp, tier, calls, incrs>>

\* check_rate_limit, lines 93-110: EXPIRE after the first increment
CheckExpire(t) ==
  /\ pc[t] = "expire"
  /\ store' = expire(frame[t].redis_key, frame[t].window_seconds).store
  /\ Allow(t, frame[t].new_count)
  /\ UNCHANGED <<now, storeUp, tier, calls, incrs>>

\* get_rate_limit_status, lines 129-134
StatusBegin(t, c) == Enter(t, c, "status", "status_get")

\* lines 136-146 on the store st, which the command of the step left
Status(t, st) ==
  /\ pc[t] = "status_get"
  /\ store' = st
  /\ LET f == frame[t]
         current_count == _get_current_count(f.redis_key)
     IN  ret' = [RateLimitResult(t, current_count < f.limit, f.limit,
                                 Max(0, f.limit - current_count),
                                 _calculate_reset_time(f.window, f.window_seconds),
                                 current_count, f.window, 0)
                   EXCEPT !.seen = current_count]
  /\ Leave(t)
  /\ UNCHANGED <<now, storeUp, tier, calls, incrs, issued, admitted, denied, _redis_client>>

\* a faulty variant of StatusGet: the status query spends a request
StatusGetSpending(t) == Status(t, incr(frame[t].redis_key).store)

\* get_rate_limit_status, lines 136-146: GET reads, the store is as it was
StatusGet(t) == Status(t, store)

\* reset_rate_limit, lines 252-254
ResetBegin(t, c) == Enter(t, c, "reset", "delete")

\* reset_rate_limit, line 256
ResetDelete(t) ==
  /\ pc[t] = "delete"
  /\ LET r == delete(frame[t].redis_key)
     IN  /\ store' = r.store
         /\ ret' = [NoReturn EXCEPT !.op = frame[t].op,
                                    !.outcome = "returned",
                                    !.redis_key = frame[t].redis_key,
                                    !.window_seconds = frame[t].window_seconds,
                                    !.window = frame[t].window,
                                    !.deleted = r.reply,
                                    !.failed = ~storeUp]
  /\ Leave(t)
  /\ incrs' = [incrs EXCEPT ![frame[t].redis_key] = IF storeUp THEN 0 ELSE @]
  /\ issued' = [issued EXCEPT ![frame[t].redis_key] = IF storeUp THEN 0 ELSE @]
  /\ admitted' = [admitted EXCEPT ![frame[t].redis_key] = IF storeUp THEN 0 ELSE @]
  /\ denied' = [denied EXCEPT ![frame[t].redis_key] = IF storeUp THEN FALSE ELSE @]
  /\ UNCHANGED _redis_client
  /\ UNCHANGED <<now, storeUp, tier, calls>>

-----------------------------------------------------------------------------
(* The caller of a request (RateLimitMiddleware._extract_identifier, and   *)
(* the same lines in the handler of /rate-limit/status).  A string is the  *)
(* sequence of its characters; a header or the peer that can be missing is *)
(* << >> when missing and <<value>> when present (headers.get gives None   *)
(* or the value; header names are looked up without regard to case, so the *)
(* two lookups of the key header give the same).                           *)

RECURSIVE lstrip(_)
lstrip(str) == IF str # << >> /\ Head(str) = " " THEN lstrip(Tail(str)) ELSE str

RECURSIVE rstrip(_)
rstrip(str) ==
  IF str # << >> /\ str[Len(str)] = " " THEN rstrip(SubSeq(str, 1, Len(str) - 1)) ELSE str

\* str.strip()
strip(str) == rstrip(lstrip(str))

\* str.split(",")[0]
RECURSIVE split_first(_)
split_first(str) ==
  IF str = << >> \/ Head(str) = "," THEN << >>
  ELSE <<Head(str)>> \o split_first(Tail(str))

\* bool(value) of an optional string: present and not empty
Truthy(opt) == opt # << >> /\ opt[1] # << >>

\* lines 97-106 of middleware.py, lines 147-152 of main.py: the client's address
client_ip(request) ==
  IF Truthy(request.forwarded_for)
  THEN strip(split_first(request.forwarded_for[1]))
  ELSE IF request.client # << >> THEN request.client[1]
  ELSE <<"u", "n", "k", "n", "o", "w", "n">>

\* a faulty variant of _extract_identifier: the forwarded chain comes first
_extract_identifier_forwarded_first(request) ==
  IF Truthy(request.forwarded_for) THEN <<client_ip(request), "ip">>
  ELSE IF Truthy(request.api_key) THEN <<request.api_key[1], "user">>
  ELSE <<client_ip(request), "ip">>

\* RateLimitMiddleware._extract_identifier
_extract_identifier(request) ==
  IF Truthy(request.api_key) THEN <<request.api_key[1], "user">>
  ELSE <<client_ip(request), "ip">>

\* a faulty variant of status_identifier: the handler passes over X-Forwarded-For
status_identifier_peer_only(request) ==
  IF Truthy(request.api_key) THEN <<request.api_key[1], "user">>
  ELSE IF request.client # << >> THEN <<request.client[1], "ip">>
  ELSE <<<<"u", "n", "k", "n", "o", "w", "n">>, "ip">>

\* get_rate_limit_status of main.py, lines 143-153: the identifier of the query
status_identifier(request) ==
  IF Truthy(request.api_key) THEN <<request.api_key[1], "user">>
  ELSE IF Truthy(request.forwarded_for)
  THEN <<strip(split_first(request.forwarded_for[1])), "ip">>
  ELSE IF request.client # << >> THEN <<request.client[1], "ip">>
  ELSE <<<<"u", "n", "k", "n", "o", "w", "n">>, "ip">>

\* the characters of header values: a letter, the separator, white space
HeaderChars == {"a", ",", " "}

RECURSIVE StringsUpTo(_)
StringsUpTo(n) ==
  IF n = 0 THEN {<< >>}
  ELSE LET shorter == StringsUpTo(n - 1)
       IN  shorter \cup {<<ch>> \o str : ch \in HeaderChars, str \in shorter}

Optional(values) == {<< >>} \cup {<<v>> : v \in values}

Requests ==
  [api_key : Optional({<< >>, <<"k">>}),
   forwarded_for : Optional(StringsUpTo(MaxHeaderLen)),
   client : Optional({<<"h">>})]

\* a request with these headers comes in, to the middleware and to the handler of
\* the status query
Receive(request) ==
  /\ frame' = [t \in Tasks |-> [IdleFrame EXCEPT !.op = "request", !.request = request]]
  /\ UNCHANGED <<now, store, storeUp, tier, pc, ret, calls, incrs, issued, admitted,
                 denied, _redis_client>>

\* dispatch, line 46
Extract(t) ==
  /\ frame[t].op = "request"
  /\ LET who == _extract_identifier(frame[t].request)
     IN  frame' = [frame EXCEPT ![t].op = "extracted",
                                ![t].identifier = who[1], ![t].identifier_type = who[2]]
  /\ UNCHANGED <<now, store, storeUp, tier, pc, ret, calls, incrs, issued, admitted,
                 denied, _redis_client>>

\* get_rate_limit_status of main.py, lines 143-153
StatusExtract(t) ==
  /\ frame[t].op = "request"
  /\ LET who == status_identifier(frame[t].request)
     IN  frame' = [frame EXCEPT ![t].op = "status_extracted",
                                ![t].identifier = who[1], ![t].identifier_type = who[2]]
  /\ UNCHANGED <<now, store, storeUp, tier, pc, ret, calls, incrs, issued, admitted,
                 denied, _redis_client>>

-----------------------------------------------------------------------------
(* app/middleware.py: RateLimitMiddleware, and the handlers of app/main.py *)

BYPASS_PATHS == {"/health", "/rate-limit/status", "/docs", "/redoc", "/openapi.json", "/"}

\* the paths of the requests: the exempt ones and the protected resource
Paths == BYPASS_PATHS \cup {"/api/resource"}

\* call_next(request) for a request the middleware did not check: the handler of
\* /rate-limit/status calls get_rate_limit_status (main.py line 156); the others
\* answer 200 without a command that writes to the store; health_check (main.py
\* lines 80-84) pings and reports "healthy" or "degraded"
call_next(t, path, c) ==
  IF path = "/rate-limit/status"
  THEN EnterFor(t, c, "status", "status_get", path)
  ELSE /\ pc[t] = "idle"
       /\ ret' = [NoReturn EXCEPT !.op = "forward", !.outcome = "returned",
                                  !.path = path, !.status_code = 200,
                                  !.forwarded = TRUE,
                                  !.failed = path = "/health" /\ ~storeUp,
                                  !.health = IF path # "/health" THEN ""
                                             ELSE IF ping THEN "healthy"
                                             ELSE "degraded"]
       /\ calls' = calls + 1
       /\ UNCHANGED <<now, store, storeUp, tier, pc, frame, incrs, issued, admitted,
                      denied, _redis_client>>

\* a faulty variant of dispatch: no path is exempt
dispatch_no_bypass(t, path, c) == EnterFor(t, c, "check", "get", path)

\* RateLimitMiddleware.dispatch, lines 42-49, for the request of caller c (the
\* identifier and kind _extract_identifier gives); lines 52-77 follow the check
\* (RateLimitResult)
dispatch(t, path, c) ==
  IF path \in BYPASS_PATHS
  THEN call_next(t, path, c)
  ELSE EnterFor(t, c, "check", "get", path)

\* the clock reaches the next instant; Redis drops the keys that expired
Tick(n) ==
  /\ n > now
  /\ \A m \in Instants : m > now => n <= m
  /\ now' = n
  /\ store' = [k \in {j \in DOMAIN store : ~Expired(j, n)} |-> store[k]]
  /\ LET gone(k) == Present(k) /\ Expired(k, n)
     IN  /\ incrs' = [k \in KeySpace |-> IF gone(k) THEN 0 ELSE incrs[k]]
         /\ issued' = [k \in KeySpace |-> IF gone(k) THEN 0 ELSE issued[k]]
         /\ admitted' = [k \in KeySpace |-> IF gone(k) THEN 0 ELSE admitted[k]]
         /\ denied' = [k \in KeySpace |-> ~gone(k) /\ denied[k]]
  /\ UNCHANGED _redis_client
  /\ UNCHANGED <<storeUp, tier, pc, frame, ret, calls>>

-----------------------------------------------------------------------------
(* Initial states.  The store is shared and outlives every instance: when  *)
(* the model starts, at instant 0, the counter of a caller's current       *)
(* window is absent or was left by earlier admitted checks made at instant *)
(* 0 (count within SeedBack of the limit, expiry armed by the first one).  *)

Key0(c) == _build_redis_key(c[2], c[1], _get_current_window(Strategy(c[2]).window))

\* the caller that made calls before the model starts, and that makes the calls
\* of the sequential runs
Seeded == {<<"u1", "user">>}

\* per such caller: -1 for no counter, d >= 0 for a count of limit - d
SeedChoices == [Seeded -> -1 .. SeedBack]

SeededStore(ch) ==
  LET cs == {c \in Seeded : ch[c] >= 0 /\ Strategy(c[2]).limit - ch[c] >= 1}
  IN  [k \in {Key0(c) : c \in cs} |->
         LET c == CHOOSE d \in cs : Key0(d) = k
         IN  [val |-> Strategy(c[2]).limit - ch[c], num |-> TRUE, ttl |-> TRUE,
              exp |-> now + Strategy(c[2]).window, sets |-> 1]]

InitCommon ==
  /\ now = 0
  /\ storeUp = TRUE
  /\ pc = [t \in Tasks |-> "idle"]
  /\ frame = [t \in Tasks |-> IdleFrame]
  /\ ret = NoReturn
  /\ calls = 0
  /\ _redis_client = [id |-> 0, connected |-> FALSE]

InitGhosts ==
  /\ incrs = [k \in KeySpace |-> IF Present(k) THEN store[k].val ELSE 0]
  /\ issued = incrs
  /\ admitted = incrs
  /\ denied = [k \in KeySpace |-> FALSE]

\* the shipped configuration, a store left by earlier calls
Init ==
  /\ InitCommon
  /\ tier = ActiveTier
  /\ \E ch \in SeedChoices : store = SeededStore(ch)
  /\ InitGhosts

\* the shipped configuration, an empty store
InitEmpty ==
  /\ InitCommon
  /\ tier = ActiveTier
  /\ store = SeededStore([c \in Seeded |-> -1])
  /\ InitGhosts

\* the strategies wired to any tier of RATE_LIMITS
InitTier ==
  /\ InitCommon
  /\ tier \in [StrategyKinds -> DOMAIN RATE_LIMITS]
  /\ \E ch \in SeedChoices : store = SeededStore(ch)
  /\ InitGhosts

-----------------------------------------------------------------------------
(* The environment of the fault specifications *)

\* Redis becomes unreachable: every command fails with RedisError
StoreDown ==
  /\ storeUp
  /\ storeUp' = FALSE
  /\ UNCHANGED <<now, store, tier, pc, frame, ret, calls, incrs, issued, admitted,
                 denied, _redis_client>>

StoreRecover ==
  /\ ~storeUp
  /\ storeUp' = TRUE
  /\ UNCHANGED <<now, store, tier, pc, frame, ret, calls, incrs, issued, admitted,
                 denied, _redis_client>>

\* the values another writer can leave under a key: not a number, a negative number
CorruptValues == {[num |-> FALSE, val |-> 0], [num |-> TRUE, val |-> -1]}

\* another client of the shared store overwrites the value of a record (expiry kept)
Corrupt(k, v) ==
  /\ Present(k)
  /\ store[k].num /\ store[k].val >= 0
  /\ store' = With(k, [store[k] EXCEPT !.num = v.num, !.val = v.val])
  /\ UNCHANGED <<now, storeUp, tier, pc, frame, ret, calls, incrs, issued, admitted,
                 denied, _redis_client>>

-----------------------------------------------------------------------------
(* Specifications *)

\* calls of the sequential specification: enough to fill a window and go past it
SeqCalls == RATE_LIMITS["free"].requests_per_minute + MaxCalls

\* A new call takes the lowest free task: tasks are the slots of the calls in
\* flight, and which slot a call takes changes nothing it does.
Free(t) == pc[t] = "idle" /\ \A u \in Tasks : u < t => pc[u] # "idle"

\* any number of instances: every round trip of every call interleaves
Next ==
  \/ \E t \in Tasks, c \in Callers : calls < MaxCalls /\ Free(t) /\ CheckBegin(t, c)
  \/ \E t \in Tasks, c \in Callers : calls < MaxCalls /\ Free(t) /\ StatusBegin(t, c)
  \/ \E t \in Tasks, c \in Callers : calls < MaxCalls /\ Free(t) /\ ResetBegin(t, c)
  \/ \E t \in Tasks : CheckGet(t)
  \/ \E t \in Tasks : CheckTtl(t)
  \/ \E t \in Tasks : CheckIncr(t)
  \/ \E t \in Tasks : CheckExpire(t)
  \/ \E t \in Tasks : StatusGet(t)
  \/ \E t \in Tasks : ResetDelete(t)
  \/ \E n \in Instants : Tick(n)

Spec == Init /\ [][Next]_vars

\* one call at a time, all of one caller, no reset, from an empty store
NextSeq ==
  \/ \E t \in SeqTasks, c \in Seeded : calls < SeqCalls /\ CheckBegin(t, c)
  \/ \E t \in SeqTasks, c \in Seeded : calls < SeqCalls /\ StatusBegin(t, c)
  \/ \E t \in SeqTasks : CheckGet(t)
  \/ \E t \in SeqTasks : CheckTtl(t)
  \/ \E t \in SeqTasks : CheckIncr(t)
  \/ \E t \in SeqTasks : CheckExpire(t)
  \/ \E t \in SeqTasks : StatusGet(t)
  \/ \E n \in Instants : Tick(n)

SpecSeq == InitEmpty /\ [][NextSeq]_vars

\* The caller of a call in flight goes away (the client disconnects, the task of
\* the request is cancelled, the worker stops): the call is dropped where it
\* stands and returns nothing.  Neither dispatch nor check_rate_limit has a
\* handler that undoes a command already sent.  new_count is 0 before the INCR.
Dropped(t) ==
  [NoReturn EXCEPT !.op = frame[t].op, !.outcome = "cancelled",
                   !.redis_key = frame[t].redis_key,
                   !.window_seconds = frame[t].window_seconds,
                   !.window = frame[t].window,
                   !.current_count = frame[t].new_count]

\* a faulty variant of Cancel: the increment of the dropped call is taken back
CancelRefund(t) ==
  /\ pc[t] # "idle"
  /\ ret' = Dropped(t)
  /\ Leave(t)
  /\ LET key == frame[t].redis_key
     IN  store' = IF frame[t].new_count > 0 /\ Present(key)
                  THEN With(key, [store[key] EXCEPT !.val = @ - 1])
                  ELSE store
  /\ UNCHANGED <<now, storeUp, tier, calls, incrs, issued, admitted, denied, _redis_client>>

Cancel(t) ==
  /\ pc[t] # "idle"
  /\ ret' = Dropped(t)
  /\ Leave(t)
  /\ UNCHANGED <<now, store, storeUp, tier, calls, incrs, issued, admitted, denied, _redis_client>>

\* the calls of one caller, interleaved, any of which can be dropped
NextCancel ==
  \/ \E t \in Tasks, c \in Seeded : calls < MaxCalls /\ Free(t) /\ CheckBegin(t, c)
  \/ \E t \in Tasks, c \in Seeded : calls < MaxCalls /\ Free(t) /\ StatusBegin(t, c)
  \/ \E t \in Tasks, c \in Seeded : calls < MaxCalls /\ Free(t) /\ ResetBegin(t, c)
  \/ \E t \in Tasks : CheckGet(t)
  \/ \E t \in Tasks : CheckTtl(t)
  \/ \E t \in Tasks : CheckIncr(t)
  \/ \E t \in Tasks : CheckExpire(t)
  \/ \E t \in Tasks : StatusGet(t)
  \/ \E t \in Tasks : ResetDelete(t)
  \/ \E n \in Instants : Tick(n)
  \/ \E t \in Tasks : Cancel(t)

SpecCancel == Init /\ [][NextCancel]_vars

\* the strategies wired to any tier
SpecTier == InitTier /\ [][Next]_vars

\* the store can become unreachable and come back
NextFault == Next \/ StoreDown \/ StoreRecover

SpecFault == Init /\ [][NextFault]_vars

\* the calls of one caller, interleaved, with a store that can become unreachable
NextFaultOne ==
  \/ \E t \in Tasks, c \in Seeded : calls < MaxCalls /\ Free(t) /\ CheckBegin(t, c)
  \/ \E t \in Tasks, c \in Seeded : calls < MaxCalls /\ Free(t) /\ StatusBegin(t, c)
  \/ \E t \in Tasks, c \in Seeded : calls < MaxCalls /\ Free(t) /\ ResetBegin(t, c)
  \/ \E t \in Tasks : CheckGet(t)
  \/ \E t \in Tasks : CheckTtl(t)
  \/ \E t \in Tasks : CheckIncr(t)
  \/ \E t \in Tasks : CheckExpire(t)
  \/ \E t \in Tasks : StatusGet(t)
  \/ \E t \in Tasks : ResetDelete(t)
  \/ \E n \in Instants : Tick(n)
  \/ StoreDown
  \/ StoreRecover

SpecFaultOne == Init /\ [][NextFaultOne]_vars

\* calls with an identifier kind RATE_LIMIT_STRATEGIES has no entry for, under any
\* wiring of the strategies to the tiers
NextKinds ==
  \/ \E t \in Tasks, c \in Strangers : calls < MaxCalls /\ Free(t) /\ CheckBegin(t, c)
  \/ \E t \in Tasks, c \in Strangers : calls < MaxCalls /\ Free(t) /\ StatusBegin(t, c)
  \/ \E t \in Tasks, c \in Strangers : calls < MaxCalls /\ Free(t) /\ ResetBegin(t, c)
  \/ \E t \in Tasks : CheckGet(t)
  \/ \E t \in Tasks : CheckTtl(t)
  \/ \E t \in Tasks : CheckIncr(t)
  \/ \E t \in Tasks : CheckExpire(t)
  \/ \E t \in Tasks : StatusGet(t)
  \/ \E t \in Tasks : ResetDelete(t)
  \/ \E n \in Instants : Tick(n)

SpecKinds == InitTier /\ [][NextKinds]_vars

\* HTTP requests through the middleware, interleaved
NextHttp ==
  \/ \E t \in Tasks, path \in Paths, c \in Callers :
       calls < MaxCalls /\ Free(t) /\ dispatch(t, path, c)
  \/ \E t \in Tasks : CheckGet(t)
  \/ \E t \in Tasks : CheckTtl(t)
  \/ \E t \in Tasks : CheckIncr(t)
  \/ \E t \in Tasks : CheckExpire(t)
  \/ \E t \in Tasks : StatusGet(t)
  \/ \E n \in Instants : Tick(n)

SpecHttp == Init /\ [][NextHttp]_vars

\* the requests of one caller, with a store that can become unreachable
NextHttpFault ==
  \/ \E t \in Tasks, path \in Paths, c \in Seeded :
       calls < MaxCalls /\ Free(t) /\ dispatch(t, path, c)
  \/ \E t \in Tasks : CheckGet(t)
  \/ \E t \in Tasks : CheckTtl(t)
  \/ \E t \in Tasks : CheckIncr(t)
  \/ \E t \in Tasks : CheckExpire(t)
  \/ \E t \in Tasks : StatusGet(t)
  \/ \E n \in Instants : Tick(n)
  \/ StoreDown
  \/ StoreRecover

SpecHttpFault == Init /\ [][NextHttpFault]_vars

\* One instance: one event loop.  dispatch and the handlers are coroutines
\* (async def), check_rate_limit and get_rate_limit_status are plain functions
\* on the blocking client redis.Redis, called without await (middleware.py line
\* 49, main.py line 156): from its first command to its last a call holds the
\* loop, and the loop starts the coroutine of another request only when no
\* call is inside these functions.
LoopIdle == \A u \in Tasks : pc[u] = "idle"

LoopDispatch(t, path, c) == LoopIdle /\ dispatch(t, path, c)

NextLoop ==
  \/ \E t \in Tasks, path \in Paths, c \in Callers :
       calls < MaxCalls /\ Free(t) /\ LoopDispatch(t, path, c)
  \/ \E t \in Tasks : CheckGet(t)
  \/ \E t \in Tasks : CheckTtl(t)
  \/ \E t \in Tasks : CheckIncr(t)
  \/ \E t \in Tasks : CheckExpire(t)
  \/ \E t \in Tasks : StatusGet(t)
  \/ \E n \in Instants : Tick(n)

SpecLoop == Init /\ [][NextLoop]_vars

\* app/redis_client.py, the client of the process.  A RedisClient is [id,
\* connected]: the id-th object constructed (0: None), and whether its connect()
\* has completed.  connect() ends with a PING (line 32) and raises
\* ConnectionError when Redis does not answer.
connect == storeUp

\* get_redis_client, lines 138-144: the global is assigned before connect() is called
get_redis_client ==
  /\ calls < MaxCalls
  /\ calls' = calls + 1
  /\ IF _redis_client.id = 0
     THEN /\ _redis_client' = [id |-> calls + 1, connected |-> connect]
          /\ ret' = IF connect
                    THEN [NoReturn EXCEPT !.op = "get_redis_client", !.outcome = "returned",
                                          !.client = [id |-> calls + 1, connected |-> TRUE]]
                    ELSE [NoReturn EXCEPT !.op = "get_redis_client", !.outcome = "raised",
                                          !.failed = TRUE]
     ELSE /\ ret' = [NoReturn EXCEPT !.op = "get_redis_client", !.outcome = "returned",
                                     !.client = _redis_client]
          /\ UNCHANGED _redis_client
  /\ UNCHANGED <<now, store, storeUp, tier, pc, frame, incrs, issued, admitted, denied>>

\* close_redis_client, lines 147-152
close_redis_client ==
  /\ _redis_client' = [id |-> 0, connected |-> FALSE]
  /\ ret' = [NoReturn EXCEPT !.op = "close_redis_client", !.outcome = "returned",
                             !.client = _redis_client]
  /\ UNCHANGED <<now, store, storeUp, tier, pc, frame, calls, incrs, issued, admitted,
                 denied>>

\* the client is also used: PING through the client that was handed out
ClientPing ==
  /\ ret.op = "get_redis_client" /\ ret.outcome = "returned"
  /\ ret' = [ret EXCEPT !.health = IF ping THEN "healthy" ELSE "degraded"]
  /\ UNCHANGED <<now, store, storeUp, tier, pc, frame, calls, incrs, issued, admitted,
                 denied, _redis_client>>

NextClient ==
  \/ get_redis_client
  \/ close_redis_client
  \/ ClientPing
  \/ StoreDown
  \/ StoreRecover

\* one process, from its start, on the store the earlier processes left
SpecClient == Init /\ [][NextClient]_vars

\* another writer can overwrite a counter's value
NextCorrupt == Next \/ \E k \in KeySpace, v \in CorruptValues : Corrupt(k, v)

SpecCorrupt == Init /\ [][NextCorrupt]_vars

-----------------------------------------------------------------------------
(* The window label alone: instances read the clock and compute the label  *)
(* of a window size, at instants that differ in the minute, in the hour    *)
(* and in the day.                                                         *)

\* the window sizes: the two calendar formats and a generic bucket
WindowSizes == {60, 3600, 90}

LabelInstants == {0, 59, 60, 3600, 3659, 86400, 86459}

\* task t evaluates _get_current_window(window_seconds) now
LabelRead(t, window_seconds) ==
  /\ frame' = [frame EXCEPT ![t] =
                 [IdleFrame EXCEPT !.op = "label",
                                   !.window_seconds = window_seconds,
                                   !.window = _get_current_window(window_seconds),
                                   !.at = now]]
  /\ UNCHANGED <<now, store, storeUp, tier, pc, ret, calls, incrs, issued, admitted,
                 denied, _redis_client>>

LabelTick(n) ==
  /\ n > now
  /\ now' = n
  /\ UNCHANGED <<store, storeUp, tier, pc, frame, ret, calls, incrs, issued, admitted,
                 denied, _redis_client>>

NextLabel ==
  \/ \E t \in Tasks, ws \in WindowSizes : LabelRead(t, ws)
  \/ \E n \in LabelInstants : LabelTick(n)

SpecLabel == InitEmpty /\ [][NextLabel]_vars

\* the identifier of a request, over every request of the bounded set
NextExtract ==
  \/ \E request \in Requests : Receive(request)
  \/ \E t \in Tasks : Extract(t)
  \/ \E t \in Tasks : StatusExtract(t)

SpecExtract == InitEmpty /\ [][NextExtract]_vars

\* The key as the string Redis receives.  _build_redis_key above keeps the three
\* parts apart; the f-string of line 161 joins them with ":" and escapes nothing.
Pad2(n) == IF n < 10 THEN "0" \o ToString(n) ELSE ToString(n)

\* strftime of a label, for the days of January 1970
strftime(window) ==
  IF window[1] = "%Y-%m-%d-%H:%M"
  THEN "1970-01-" \o Pad2(window[2] + 1) \o "-" \o Pad2(window[3]) \o ":" \o Pad2(window[4])
  ELSE IF window[1] = "%Y-%m-%d-%H"
  THEN "1970-01-" \o Pad2(window[2] + 1) \o "-" \o Pad2(window[3])
  ELSE ToString(window[2])

\* f"rate:{identifier_type}:{identifier}:{window}"
redis_key_string(identifier_type, identifier, window) ==
  "rate:" \o identifier_type \o ":" \o identifier \o ":" \o strftime(window)

\* kinds and identifiers a caller of the RateLimiter may pass; both are plain str
KeyKinds == {"user", "ip", "ip:x"}
KeyIdentifiers == {"u1", "y", "x:y"}

\* lines 65-70 of check_rate_limit, 129-131 of get_rate_limit_status, 252-254 of
\* reset_rate_limit: the strategy, the window, the key
BuildKey(t, o, identifier_type, identifier) ==
  /\ LET window_seconds == Strategy(identifier_type).window
         window == _get_current_window(window_seconds)
     IN  frame' = [frame EXCEPT ![t] =
                     [IdleFrame EXCEPT !.op = o,
                                       !.identifier = identifier,
                                       !.identifier_type = identifier_type,
                                       !.window_seconds = window_seconds,
                                       !.window = window,
                                       !.redis_key =
                                          redis_key_string(identifier_type, identifier, window),
                                       !.at = now]]
  /\ UNCHANGED <<now, store, storeUp, tier, pc, ret, calls, incrs, issued, admitted,
                 denied, _redis_client>>

NextKey ==
  \/ \E t \in Tasks, o \in {"check", "status", "reset"},
        kind \in KeyKinds, identifier \in KeyIdentifiers : BuildKey(t, o, kind, identifier)
  \/ \E n \in {59, 60} : LabelTick(n)

SpecKey == InitEmpty /\ [][NextKey]_vars

-----------------------------------------------------------------------------
(* Properties *)

\* the limit that governs the counter under key k
LimitOf(k) == Strategy(k[2]).limit

\* the instant at which the window named by a label ends
WindowEnd(window, window_seconds) ==
  IF window[1] = "%Y-%m-%d-%H:%M"
  THEN window[2] * 86400 + window[3] * 3600 + window[4] * 60 + 60
  ELSE IF window[1] = "%Y-%m-%d-%H" THEN window[2] * 86400 + window[3] * 3600 + 3600
  ELSE window[2] + window_seconds

\* the last call that ended returned a Decision (check or get_status)
Decided == ret.outcome = "returned" /\ ret.op \in {"check", "status"}

\* the count a parseable record holds, 0 for no record
CountIn(st, k) == IF k \in DOMAIN st THEN st[k].val ELSE 0

\* C1: for one key (kind, identifier, window label), with no reset in between
\* (and, here, no expiry of the key either), at most `limit` check calls return
\* allowed = TRUE, under every interleaving.
C1_AtMostLimitAdmitted == \A k \in KeySpace : admitted[k] <= LimitOf(k)

\* C2: increments on one key serialize: the stored count equals the number of
\* INCR commands applied since the key was absent, however the callers interleave.
C2_IncrementsSerialize ==
  \A k \in KeySpace : incrs[k] = CountIn(store, k)

\* an admitted check whose INCR came after another caller's INCR on the same key,
\* applied between its own GET and INCR: both increments are in the count
C2_Witness ==
  /\ ret.op = "check" /\ ret.outcome = "returned" /\ ret.allowed
  /\ ret.current_count >= ret.seen + 2
  /\ CountIn(store, ret.redis_key) = ret.current_count

\* C3: one caller, one window, no concurrency: the n-th check is allowed with
\* current_count n and remaining limit - n for n <= limit, and the next one is
\* denied with remaining 0, current_count limit and retry_after > 0.
C3_SequentialFill ==
  (ret.op = "check" /\ ret.outcome = "returned" /\ now < WindowEnd(ret.window, ret.window_seconds))
    => LET n == issued[ret.redis_key]
       IN  IF n <= ret.limit
           THEN ret.allowed /\ ret.current_count = n /\ ret.remaining = ret.limit - n
           ELSE /\ ~ret.allowed /\ ret.remaining = 0
                /\ ret.current_count = ret.limit /\ ret.retry_after > 0

\* the call after the limit-th one, denied inside the same window
C3_Witness ==
  /\ ret.op = "check" /\ ret.outcome = "returned" /\ ~ret.allowed
  /\ issued[ret.redis_key] = ret.limit + 1
  /\ now < WindowEnd(ret.window, ret.window_seconds)

\* C4: the steps of a check that is denied (the GET that finds the limit reached,
\* the TTL of the denial) leave every record of the store as it was.
C4_DenialWritesNothing ==
  [][\A t \in Tasks :
       ((pc[t] = "ttl" \/ pc'[t] = "ttl") /\ pc'[t] # pc[t]) => store' = store]_vars

\* a denial was returned while the store holds the denied counter and another one
C4_Witness ==
  /\ ret.op = "check" /\ ret.outcome = "returned" /\ ~ret.allowed
  /\ Present(ret.redis_key)
  /\ \E k \in DOMAIN store : k # ret.redis_key

\* C5: every step of get_status leaves the store as it was, and the count it
\* reports is the stored one: a second get_status reports the same count.
C5_StatusReadsOnly ==
  [][\A t \in Tasks :
       ((frame[t].op = "status" \/ frame'[t].op = "status") /\ pc'[t] # pc[t])
         => /\ store' = store
            /\ pc[t] = "status_get" =>
                 ret'.current_count = CountIn(store', frame[t].redis_key)]_vars

\* get_status returned the count of an existing counter
C5_Witness ==
  /\ ret.op = "status" /\ ret.outcome = "returned"
  /\ ret.current_count >= 1 /\ Present(ret.redis_key)

\* C6: every Decision has remaining = max(0, limit - current_count) and
\* 0 <= remaining <= limit, whatever value the store holds for the key.
C6_RemainingInRange ==
  Decided => /\ ret.remaining = Max(0, ret.limit - ret.current_count)
             /\ 0 <= ret.remaining /\ ret.remaining <= ret.limit

\* C7: under a strategy with limit -1 every check returns allowed = TRUE.
C7_UnlimitedBypass ==
  (ret.op = "check" /\ ret.outcome = "returned" /\ ret.limit = -1) => ret.allowed

\* C8: over the lifetime of a record its expiry is set exactly once, by the check
\* that created it: no later EXPIRE sets or refreshes it.
C8_TtlSetOnce == \A k \in DOMAIN store : store[k].sets <= 1

\* C9: no counter stays in the store without an expiry: a record that has none
\* is about to get one from the check whose INCR created it.
C9_EveryCounterExpires ==
  \A k \in DOMAIN store :
    ~store[k].ttl => \E t \in Tasks : pc[t] = "expire" /\ frame[t].redis_key = k

\* C10: reset_at of a Decision is the end of the window its label names.
C10_ResetAtEndsLabelledWindow ==
  Decided => ret.reset_at = WindowEnd(ret.window, ret.window_seconds)

\* C11: the window label is a function of the window size and the instant: two
\* evaluations for one window size give the same label exactly when the instants
\* have the same floor(epoch / window_seconds), for the minute format, the hour
\* format and the generic bucket.
C11_LabelNamesTheBucket ==
  \A t, u \in Tasks :
    (frame[t].op = "label" /\ frame[u].op = "label"
       /\ frame[t].window_seconds = frame[u].window_seconds)
      => (frame[t].window = frame[u].window
            <=> frame[t].at \div frame[t].window_seconds
                  = frame[u].at \div frame[u].window_seconds)

\* two minute labels read at the same minute of different hours
C11_Witness ==
  /\ frame[1].op = "label" /\ frame[2].op = "label"
  /\ frame[1].window_seconds = 60 /\ frame[2].window_seconds = 60
  /\ frame[1].at # frame[2].at
  /\ (frame[1].at % 3600) \div 60 = (frame[2].at % 3600) \div 60
  /\ frame[1].window # frame[2].window

\* the key under which the counter of the caller of the last call is kept for the
\* window that a label names
KeyFor(window) == <<"rate", ret.redis_key[2], ret.redis_key[3], window>>

\* C12: the first check of the window after a rollover (no other check has counted
\* in the new window) has the new window's label and key, is allowed and returns
\* current_count 1, whatever count the previous window holds.
C12_RolloverStartsAtOne ==
  (/\ ret.op = "check" /\ ret.outcome = "returned"
   /\ ret.window = MinuteLabel(1)
   /\ CountIn(store, KeyFor(MinuteLabel(1))) <= 1)
    => /\ ret.redis_key = KeyFor(MinuteLabel(1))
       /\ ret.allowed
       /\ ret.current_count = 1

\* the first check of the second window, made while the counter of the first
\* window is still in the store, at its limit
C12_Witness ==
  /\ ret.op = "check" /\ ret.outcome = "returned"
  /\ ret.window = MinuteLabel(1) /\ ret.allowed /\ ret.current_count = 1
  /\ CountIn(store, KeyFor(MinuteLabel(0))) >= ret.limit

\* C13: reset works on the key of the window that is current when it is called;
\* its DELETE removes the record of that key and no other, and the call returns
\* TRUE exactly when there was such a record.
C13_ResetDeletesOneKey ==
  [][\A t \in Tasks :
       /\ (pc[t] = "idle" /\ pc'[t] = "delete")
            => frame'[t].redis_key
                 = <<"rate", frame'[t].identifier_type, frame'[t].identifier,
                     MinuteLabel(now \div 60)>>
       /\ (pc[t] = "delete" /\ pc'[t] = "idle")
            => /\ DOMAIN store' = DOMAIN store \ {frame[t].redis_key}
               /\ \A k \in DOMAIN store' : store'[k] = store[k]
               /\ ret'.op = "reset" /\ ret'.outcome = "returned"
               /\ ret'.deleted = (frame[t].redis_key \in DOMAIN store)]_vars

\* a reset removed a record and another caller's counter is still in the store
C13_Witness ==
  /\ ret.op = "reset" /\ ret.outcome = "returned" /\ ret.deleted
  /\ ~Present(ret.redis_key)
  /\ \E k \in DOMAIN store : k # ret.redis_key

\* C14: the next check after a reset removed the record (the check begins when the
\* reset is the last call that returned, same key) behaves as a first call: it
\* returns allowed with current_count 1 and leaves the record with its expiry
\* armed to window_seconds, also when other checks on the key are in flight.
C14_CheckAfterResetIsFirst ==
  [][\A t \in Tasks :
       (frame[t].op = "check" /\ frame[t].fresh /\ pc[t] # "idle" /\ pc'[t] = "idle")
         => /\ ret'.outcome = "returned" /\ ret'.allowed
            /\ ret'.current_count = 1
            /\ frame[t].redis_key \in DOMAIN store'
            /\ store'[frame[t].redis_key].ttl
            /\ store'[frame[t].redis_key].exp = now + frame[t].window_seconds]_vars

\* C15: a denial carries as retry_after the seconds the record of its key has left
\* to live when the store tells a positive number, and window_seconds when the
\* record has no expiry, is gone or the store failed; an allowed Decision carries 0.
C15_RetryAfterFromTtl ==
  [][\A t \in Tasks :
       /\ (pc[t] = "ttl" /\ pc'[t] = "idle")
            => LET k == frame[t].redis_key
                   left == IF storeUp /\ k \in DOMAIN store /\ store[k].ttl
                           THEN store[k].exp - now ELSE 0
               IN  /\ ~ret'.allowed
                   /\ ret'.retry_after = IF left > 0 THEN left
                                          ELSE frame[t].window_seconds
       /\ (pc[t] # "idle" /\ pc'[t] = "idle" /\ ret'.outcome = "returned"
              /\ ret'.op \in {"check", "status"} /\ ret'.allowed)
            => ret'.retry_after = 0]_vars

\* a denial whose retry_after is the time the record has left, less than the window
C15_Witness ==
  /\ ret.op = "check" /\ ret.outcome = "returned" /\ ~ret.allowed
  /\ ret.retry_after > 0 /\ ret.retry_after < ret.window_seconds
  /\ Present(ret.redis_key) /\ ret.retry_after = store[ret.redis_key].exp - now

\* C16: whatever another writer left under the key (not a number, a negative
\* number), check counts it as 0 and returns a Decision: no fault comes out of it.
C16_CorruptCountNeverFaults ==
  ret.op = "check" => ret.outcome = "returned"

\* C17: a store command that fails is a value to RateLimiter: no call of check,
\* get_status or reset ends with an exception.
C17_StoreFailureNeverRaises ==
  ret.failed => ret.outcome = "returned"

\* what a call of check came to: a Decision that allows, one that denies, a fault
Kind(r) ==
  IF r.outcome = "raised" THEN "raised" ELSE IF r.allowed THEN "allowed" ELSE "denied"

\* a check returned after one of its store commands failed
FailedCheck(r) == r.op = "check" /\ r.failed

\* C18: check has one policy under store failure: two checks that each had a store
\* command fail come to the same kind of outcome, whichever command it was.
C18_OneFailurePolicy ==
  [][(FailedCheck(ret) /\ FailedCheck(ret')) => Kind(ret') = Kind(ret)]_vars

\* C19: a call for an identifier kind without a strategy returns normally, and it
\* works with the limit and the window of the "ip" strategy.
C19_UnknownKindUsesIp ==
  (ret.outcome # "none" /\ ret.redis_key[2] \notin StrategyKinds)
    => /\ ret.outcome = "returned"
       /\ ret.window_seconds = RATE_LIMIT_STRATEGIES["ip"].window
       /\ ret.op \in {"check", "status"} => ret.limit = RATE_LIMIT_STRATEGIES["ip"].limit

\* a check of an unknown kind returned while "ip" and "user" have different limits
C19_Witness ==
  /\ ret.op = "check" /\ ret.outcome = "returned"
  /\ ret.redis_key[2] \notin StrategyKinds
  /\ RATE_LIMIT_STRATEGIES["ip"].limit # RATE_LIMIT_STRATEGIES["user"].limit
  /\ ret.limit = RATE_LIMIT_STRATEGIES["ip"].limit

\* C20: a request for an exempt path never runs check: no step taken for it changes
\* the store, and its response is 200, never the 429 of a denial.
C20_ExemptPathsSkipCheck ==
  [][/\ \A t \in Tasks :
          ((frame[t].path \in BYPASS_PATHS \/ frame'[t].path \in BYPASS_PATHS)
             /\ frame'[t] # frame[t])
            => /\ store' = store
               /\ frame[t].op # "check" /\ frame'[t].op # "check"
     /\ (ret' # ret /\ ret'.path \in BYPASS_PATHS)
          => /\ store' = store
             /\ ret'.op # "check"
             /\ ret'.status_code = 200]_vars

\* an exempt request was answered 200 while the caller's counter was at its limit:
\* the status query that reports it
C20_Witness ==
  /\ ret.path = "/rate-limit/status" /\ ret.status_code = 200
  /\ ret.outcome = "returned" /\ ret.current_count >= ret.limit

\* the paths the middleware does not exempt
Protected == Paths \ BYPASS_PATHS

\* the Decisions check has returned so far, over all keys
Issued(f) == LET Sum[S \in SUBSET KeySpace] ==
                   IF S = {} THEN 0
                   ELSE LET k == CHOOSE x \in S : TRUE IN f[k] + Sum[S \ {k}]
             IN  Sum[KeySpace]

\* C21: a request for a protected path runs check once, and its response comes
\* with that check's return; when the Decision denies, the handler is not reached
\* and the response is 429 with the Decision's limit, retry_after and window
\* label in the body.
C21_DenialShortCircuits ==
  [][\A t \in Tasks :
       /\ (frame'[t].path \in Protected /\ frame[t].path \notin Protected)
            => frame'[t].op = "check" /\ pc'[t] = "get" /\ ret' = ret
       /\ (frame[t].path \in Protected /\ pc'[t] = "idle" /\ ret'.outcome = "returned")
            => /\ ret'.op = "check" /\ ret'.path = frame[t].path
               /\ Issued(issued') = Issued(issued) + 1
               /\ IF ret'.allowed
                  THEN ret'.forwarded /\ ret'.status_code = 200
                  ELSE /\ ~ret'.forwarded /\ ret'.status_code = 429
                       /\ ret'.body.limit = ret'.limit
                       /\ ret'.body.retry_after = ret'.retry_after
                       /\ ret'.body.window = frame[t].window]_vars

\* a protected request was rejected with 429
C21_Witness ==
  /\ ret.path \in Protected /\ ret.op = "check" /\ ret.outcome = "returned"
  /\ ~ret.allowed /\ ret.status_code = 429 /\ ~ret.forwarded
  /\ ret.body.retry_after = ret.retry_after /\ ret.retry_after > 0

\* C22: every response to a request for a protected path carries the headers
\* X-RateLimit-Limit, X-RateLimit-Remaining and X-RateLimit-Reset of that request's
\* Decision, and Retry-After exactly when the Decision is a denial.
C22_QuotaHeadersAlways ==
  (ret.path \in Protected /\ ret.status_code # 0)
    => /\ {"X-RateLimit-Limit", "X-RateLimit-Remaining", "X-RateLimit-Reset"}
            \subseteq DOMAIN ret.headers
       /\ ret.headers["X-RateLimit-Limit"] = ret.limit
       /\ ret.headers["X-RateLimit-Remaining"] = ret.remaining
       /\ ret.headers["X-RateLimit-Reset"] = ret.reset_at
       /\ "Retry-After" \in DOMAIN ret.headers <=> ~ret.allowed

\* str is the first entry of the comma-separated chain, without the white space
\* around it
IsFirstEntryTrimmed(str, chain) ==
  \E n \in 0 .. Len(chain), i \in 1 .. Len(chain) + 1 :
    /\ \A j \in 1 .. n : chain[j] # ","
    /\ n = Len(chain) \/ chain[n + 1] = ","
    /\ i + Len(str) - 1 <= n
    /\ \A j \in 1 .. Len(str) : str[j] = chain[i + j - 1]
    /\ \A j \in 1 .. n : (j < i \/ j >= i + Len(str)) => chain[j] = " "
    /\ str # << >> => str[1] # " " /\ str[Len(str)] # " "

\* C23: the identifier of a request: a key header that is not empty gives (key,
\* user) whatever the other headers; else a forwarded chain gives (its first
\* entry, trimmed, ip); else the peer address gives (address, ip); else
\* ("unknown", ip).
C23_IdentifierFirstMatch ==
  \A t \in Tasks :
    frame[t].op = "extracted" =>
      LET r == frame[t].request
          id == frame[t].identifier
          kind == frame[t].identifier_type
      IN  IF r.api_key # << >> /\ r.api_key[1] # << >>
          THEN id = r.api_key[1] /\ kind = "user"
          ELSE IF r.forwarded_for # << >> /\ r.forwarded_for[1] # << >>
          THEN IsFirstEntryTrimmed(id, r.forwarded_for[1]) /\ kind = "ip"
          ELSE IF r.client # << >>
          THEN id = r.client[1] /\ kind = "ip"
          ELSE id = <<"u", "n", "k", "n", "o", "w", "n">> /\ kind = "ip"

\* a key header wins over a forwarded chain and a peer address that are present too
C23_Witness ==
  \E t \in Tasks :
    /\ frame[t].op = "extracted"
    /\ frame[t].request.api_key = <<<<"k">>>>
    /\ frame[t].request.forwarded_for = <<<<" ", "a", ",">>>>
    /\ frame[t].request.client # << >>
    /\ frame[t].identifier = <<"k">> /\ frame[t].identifier_type = "user"

\* C30: the status query takes the caller of a request as the middleware does:
\* for the same headers and peer, the same identifier and the same kind, so
\* the same counter.
C30_StatusResolvesAsMiddleware ==
  \A t \in Tasks, u \in Tasks :
    (/\ frame[t].op = "extracted" /\ frame[u].op = "status_extracted"
     /\ frame[t].request = frame[u].request)
      => /\ frame[u].identifier = frame[t].identifier
         /\ frame[u].identifier_type = frame[t].identifier_type

\* both have taken the first entry of the same forwarded chain
C30_Witness ==
  \E t \in Tasks, u \in Tasks :
    /\ frame[t].op = "extracted" /\ frame[u].op = "status_extracted"
    /\ frame[t].request = frame[u].request
    /\ frame[t].request.api_key = << >>
    /\ frame[t].request.forwarded_for = <<<<"a", ",", "a">>>>
    /\ frame[u].identifier = <<"a">> /\ frame[u].identifier_type = "ip"

C25_UserHundredIpTwenty ==
  (Decided /\ ret.redis_key[2] \in StrategyKinds)
    => /\ ret.window_seconds = 60
       /\ ret.limit = IF ret.redis_key[2] = "user" THEN 100 ELSE 20

\* C26: an increment is never taken back: while a record exists its count does
\* not go down, also when the call that made the increment is dropped before
\* it returns; a record goes away only by the DELETE of a reset or by expiry.
C26_IncrementNeverRolledBack ==
  [][\A k \in DOMAIN store :
       IF k \in DOMAIN store'
       THEN store'[k].val >= store[k].val
       ELSE \/ now' > now /\ Expired(k, now')
            \/ \E t \in Tasks : /\ pc[t] = "delete" /\ pc'[t] = "idle"
                                 /\ frame[t].redis_key = k]_vars

\* a check was dropped after its INCR, and the record still holds the count
C26_Witness ==
  /\ ret.outcome = "cancelled" /\ ret.op = "check" /\ ret.current_count = 1
  /\ Present(ret.redis_key) /\ store[ret.redis_key].val >= 1
  /\ incrs[ret.redis_key] = store[ret.redis_key].val

\* C27: every command of a call goes to the key the call computed when it began:
\* a step of a call leaves every other key as it is, record and expiry, also
\* when the clock has passed the end of the window since the call began.
C27_CallTouchesOnlyItsKey ==
  [][\A t \in Tasks :
       pc'[t] # pc[t] =>
         /\ (pc[t] # "idle" /\ pc'[t] # "idle") => frame'[t].redis_key = frame[t].redis_key
         /\ pc[t] = "idle" => store' = store
         /\ pc[t] # "idle" =>
              \A k \in KeySpace \ {frame[t].redis_key} :
                /\ k \in DOMAIN store' <=> k \in DOMAIN store
                /\ k \in DOMAIN store => store'[k] = store[k]]_vars

\* a check that began in the first window returned in the second one, where
\* the caller's counter of the second window exists
C27_Witness ==
  /\ ret.op = "check" /\ ret.outcome = "returned" /\ ret.allowed
  /\ ret.window = MinuteLabel(0) /\ ret.reset_at = 120
  /\ Present(ret.redis_key)
  /\ Present(_build_redis_key(ret.redis_key[2], ret.redis_key[3], MinuteLabel(1)))

\* C28: the health signal is "degraded" whenever the PING of the store fails and
\* "healthy" whenever it succeeds, whatever the checks decide meanwhile.
C28_HealthFollowsPing ==
  [][(calls' # calls /\ pc' = pc /\ ret'.path = "/health")
       => /\ ret'.health = IF storeUp THEN "healthy" ELSE "degraded"
          /\ ret'.status_code = 200 /\ store' = store]_vars

\* the store is down, a check is in flight, and the health signal said degraded
C28_Witness ==
  /\ ret.path = "/health" /\ ret.health = "degraded" /\ ~storeUp
  /\ \E t \in Tasks : pc[t] # "idle" /\ frame[t].op = "check"

\* C29: within one instance the calls run as concurrent tasks: while a call is
\* between its GET and its INCR, the request of another call can be taken up
\* and go its own way; no round trip of a call holds up another call.
C29_NoCallBlocksAnother ==
  (calls < MaxCalls /\ \E t \in Tasks : pc[t] = "incr")
    => ENABLED (\E u \in Tasks, path \in Paths, c \in Callers :
                  Free(u) /\ LoopDispatch(u, path, c))

\* the checks on key k that have made their INCR and have not returned yet
Counted(k) == {t \in Tasks : pc[t] = "expire" /\ frame[t].redis_key = k}

\* C31: with no store failure and no call dropped, in every state the count of a
\* record equals the number of checks on its key that returned allowed since the
\* record was last absent.
C31_CountEqualsAdmitted ==
  \A k \in DOMAIN store : store[k].val = admitted[k]

\* C31, as it holds: with no reset either, the count of a record equals the
\* number of checks that returned allowed since the record was last absent plus
\* the number of checks that have made their INCR and have not returned yet.
C31_CountEqualsAdmittedAndCounted ==
  \A k \in DOMAIN store : store[k].val = admitted[k] + Cardinality(Counted(k))

\* of two concurrent checks on a new key one has returned and one has not
C31_Witness ==
  \E k \in DOMAIN store :
    /\ store[k].val = 2 /\ admitted[k] = 1 /\ Cardinality(Counted(k)) = 1
    /\ ret.op = "check" /\ ret.allowed /\ ret.redis_key = k

\* C32: expiry never removes a record while the clock is inside the window its
\* key names: the expiry is armed for window_seconds at an instant of that
\* window or later, under every interleaving of checks and resets.
C32_NoExpiryInsideWindow ==
  [][\A k \in DOMAIN store :
       (now' # now /\ k \notin DOMAIN store')
         => now' >= WindowEnd(k[4], Strategy(k[2]).window)]_vars

\* the one call made was a check that created a record in the first window; the
\* clock has left that window and the record has expired
C32_Witness ==
  /\ calls = 1 /\ ret.op = "check" /\ ret.allowed /\ ret.current_count = 1
  /\ ret.window = MinuteLabel(0) /\ now >= 60
  /\ ~Present(ret.redis_key)

\* C33: on every denial 1 <= retry_after <= window_seconds, and once retry_after
\* seconds have passed since the denial the clock is in a later window than the
\* denied one.
C33_RetryAfterSuffices ==
  [][\A t \in Tasks :
       (pc[t] = "ttl" /\ pc'[t] = "idle")
         => /\ ret'.op = "check" /\ ret'.outcome = "returned" /\ ~ret'.allowed
            /\ 1 <= ret'.retry_after /\ ret'.retry_after <= ret'.window_seconds
            /\ now + ret'.retry_after >= WindowEnd(frame[t].window, frame[t].window_seconds)]_vars

\* a denial in the last second of the window: one second is enough
C33_Witness ==
  /\ ret.op = "check" /\ ret.outcome = "returned" /\ ~ret.allowed
  /\ ret.window = MinuteLabel(0) /\ now = 59 /\ ret.reset_at = 60
  /\ ret.retry_after = 1

\* C34: a check is denied only when its GET read a count of at least the limit
\* for the key of its window, so only when that many calls were admitted on the
\* key since the last reset (they returned allowed, or have made their INCR and
\* will); with a limit of 1 or more the first check of a fresh window, which
\* finds no record, is allowed.
C34_DeniedOnlyAtLimit ==
  [][\A t \in Tasks :
       LET k == frame[t].redis_key
       IN  /\ (pc[t] = "get" /\ pc'[t] = "ttl")
                => /\ CountIn(store, k) >= frame[t].limit
                   /\ admitted[k] + Cardinality(Counted(k)) >= frame[t].limit
           /\ (pc[t] = "get" /\ pc'[t] # "get" /\ ~Present(k) /\ frame[t].limit >= 1)
                => pc'[t] = "incr"
           /\ (pc[t] # "idle" /\ pc'[t] = "idle" /\ frame[t].op = "check")
                => /\ ret'.op = "check" /\ ret'.outcome = "returned"
                   /\ ret'.allowed <=> pc[t] \in {"incr", "expire"}
                   /\ ~ret'.allowed => ret'.seen >= ret'.limit]_vars

\* a check was denied at a count equal to the limit
C34_Witness ==
  /\ ret.op = "check" /\ ret.outcome = "returned" /\ ~ret.allowed
  /\ ret.seen = ret.limit /\ ret.limit >= 1

\* C35: once a check has denied a caller in a window, every later check of the
\* caller that computes the label of that window is denied too, unless a reset
\* or an expiry removed the counter in between.
C35_DenialIsStable ==
  [][\A t \in Tasks :
       (/\ frame[t].op = "check" /\ pc[t] # "idle" /\ pc'[t] # pc[t]
        /\ frame[t].later /\ denied[frame[t].redis_key])
         => \/ pc[t] = "get" /\ pc'[t] = "ttl"
            \/ /\ pc[t] = "ttl" /\ pc'[t] = "idle"
               /\ ret'.op = "check" /\ ret'.outcome = "returned" /\ ~ret'.allowed]_vars

\* C36: every client get_redis_client returns has completed connect(): calls in
\* a row return the same connected instance until close_redis_client, and after
\* a connect() that raised, a later call makes a new connection instead of
\* handing out the client that is not connected.
C36_ClientIsConnected ==
  (ret.op = "get_redis_client" /\ ret.outcome = "returned")
    => ret.client.connected /\ ret.client = _redis_client

====
